---- MODULE Spec2Model ----
(***************************************************************************)
(* Model of bot.js: the /scrape and /stop command handlers, the registry   *)
(* scrapingControllers, and the polling loop scrapeUntilButtonFound with   *)
(* its withTimeout guard.                                                  *)
(*                                                                         *)
(* Node runs one callback at a time.  An action of this model is one run   *)
(* of the event loop: a command handler up to its first await, or the      *)
(* continuation of a session after one awaited promise settles, up to the  *)
(* next await.  Code that runs without an await in between (the check of   *)
(* the cancellation flag and the call of page.goto, the settling of        *)
(* scrapeUntilButtonFound and the handler's message and delete) is one     *)
(* action.                                                                 *)
(***************************************************************************)
EXTENDS Integers, Sequences, FiniteSets, TLC

\* ---- bounds ----
\* total number of page.goto calls explored, over all sessions
MaxGotos == 3

\* conversations (chat ids), sessions (one per admitted /scrape) and the values
\* the extraction can return
Chats == {1, 2}
Sids == {1, 2}
Snapshots == {1, 2}

\* A scrape argument: new URL(url) accepts it iff it is absolute (has a scheme).
Urls == {[scheme |-> "https", rest |-> "shop/item"], [scheme |-> "", rest |-> "shop/item"]}

\* The document the extraction sees: the target button may be absent, present
\* with the class 'hide', or present and visible; snap stands for the triple
\* (text, aria-label, data-link) of the button.
Doms == {[button |-> FALSE, hide |-> FALSE, snap |-> 0],
         [button |-> TRUE, hide |-> TRUE, snap |-> 1]}
          \cup {[button |-> TRUE, hide |-> FALSE, snap |-> k] : k \in Snapshots}

NoDom == [button |-> FALSE, hide |-> FALSE, snap |-> -1]

VARIABLES
  scrapingControllers,  \* chat -> 0 (no entry) or the cancellation token stored for it
  cancelled,            \* token -> its cancelled flag (token s is the one created for session s)
  sess,                 \* session -> the locals of its handler and of scrapeUntilButtonFound
  nextSid,              \* next session / token to create
  ev,                   \* the command or step that ran last and the message it sent
  race,                 \* one call of withTimeout followed on its own
  scroll                \* one call of autoScroll followed on its own

vars == <<scrapingControllers, cancelled, sess, nextSid, ev, race, scroll>>

NoCompletion == [kind |-> "none", data |-> 0, err |-> ""]

NoUrl == [scheme |-> "", rest |-> ""]

\* what a step of a session leaves in ev: no command, no message
StepEvent == [op |-> "step", chat |-> 0, url |-> NoUrl, reply |-> "none"]

NewSession == [pc |-> "idle", chat |-> 0, url |-> NoUrl,
               browser |-> "undefined", completion |-> NoCompletion,
               loopExit |-> NoCompletion, outcome |-> "none",
               dom |-> NoDom, data |-> 0,
               gotoCount |-> 0, checkCount |-> 0, sleepCount |-> 0,
               closeCount |-> 0, relCount |-> 0,
               foundCount |-> 0, nullCount |-> 0, msgs |-> <<>>, abandoned |-> 0]

\* a promise that has not settled
Pending == [kind |-> "pending", val |-> ""]

\* no call of withTimeout is being followed
NoRace == [ms |-> 0, errorMessage |-> "", now |-> 0, promise |-> Pending,
           timer |-> "none", result |-> Pending, first |-> "none"]

\* no call of autoScroll is being followed
NoScroll == [state |-> "idle", scrollHeight |-> 0, innerHeight |-> 0, scrollY |-> 0,
             totalHeight |-> 0, ticks |-> 0, grown |-> 0, stalls |-> 0,
             advanced |-> FALSE]

Init ==
  /\ scrapingControllers = [c \in Chats |-> 0]
  /\ cancelled = [s \in Sids |-> FALSE]
  /\ sess = [s \in Sids |-> NewSession]
  /\ nextSid = 1
  /\ ev = [op |-> "init", chat |-> 0, url |-> NoUrl, reply |-> "none"]
  /\ race = NoRace
  /\ scroll = NoScroll

\* ---- pure helpers ----

RECURSIVE SumGotos(_)
SumGotos(S) ==
  IF S = {} THEN 0
  ELSE LET s == CHOOSE x \in S : TRUE IN sess[s].gotoCount + SumGotos(S \ {s})

\* the bound of the exploration: another page.goto may still be explored
GotoBudget == SumGotos(Sids) < MaxGotos

\* new URL(url) does not throw
ValidURL(u) == u.scheme # ""

\* an extraction that does not look at the class 'hide'
ExtractButtonIgnoringHide(dom) == IF dom.button THEN dom.snap ELSE 0

\* the callback of page.evaluate: null (0) unless the button exists and is not hidden
ExtractButton(dom) ==
  IF dom.button
    THEN IF dom.hide THEN 0 ELSE dom.snap
    ELSE 0

\* Promise.race of the operation and the timer: the first to settle decides.
\* first is "resolve" or "reject" (the operation) or "timer".
withTimeout(first) ==
  CASE first = "resolve" -> "ok"
    [] first = "reject" -> "opError"
    [] first = "timer" -> "timeoutError"

\* The outcome of a session as the handler sees it settle.
Outcome(comp) ==
  CASE comp.kind = "return" -> "Found"
    [] comp.kind = "throw" /\ comp.err = "stopped by user" -> "Cancelled"
    [] comp.kind = "throw" /\ comp.err # "stopped by user" -> "Failed"
    [] OTHER -> "none"

Return(d) == [kind |-> "return", data |-> d, err |-> ""]
Throw(e) == [kind |-> "throw", data |-> 0, err |-> e]

\* ---- scrapeUntilButtonFound, as transformations of the session's locals ----

\* a cleanup that calls browser.close() without testing browser
FinallyBlockNoGuard(r, comp) ==
  [r EXCEPT !.pc = "close", !.completion = comp, !.loopExit = comp,
            !.closeCount = @ + 1]

\* a cleanup that closes the browser only when the loop returned
FinallyBlockCloseOnReturnOnly(r, comp) ==
  IF r.browser # "undefined" /\ comp.kind = "return"
    THEN [r EXCEPT !.pc = "close", !.completion = comp, !.loopExit = comp,
                   !.closeCount = @ + 1]
    ELSE [r EXCEPT !.pc = "settled", !.completion = comp, !.loopExit = comp]

\* a cleanup that calls browser.close() and does not await it
FinallyBlockNoAwait(r, comp) ==
  IF r.browser # "undefined"
    THEN [r EXCEPT !.pc = "settled", !.completion = comp, !.loopExit = comp,
                   !.closeCount = @ + 1]
    ELSE [r EXCEPT !.pc = "settled", !.completion = comp, !.loopExit = comp]

\* finally { if (browser) await browser.close(); }
FinallyBlock(r, comp) ==
  IF r.browser # "undefined"
    THEN [r EXCEPT !.pc = "close", !.completion = comp, !.loopExit = comp,
                   !.closeCount = @ + 1]
    ELSE [r EXCEPT !.pc = "settled", !.completion = comp, !.loopExit = comp]

\* a loop that never looks at the cancellation token
LoopTopNoCheck(r, flag) ==
  [r EXCEPT !.pc = "goto", !.gotoCount = @ + 1, !.data = 0]

\* a loop that calls page.goto without awaiting it
LoopTopNoAwait(r, flag) ==
  IF flag
    THEN FinallyBlock([r EXCEPT !.checkCount = @ + 1], Throw("stopped by user"))
    ELSE [r EXCEPT !.pc = "pause1", !.checkCount = @ + 1, !.gotoCount = @ + 1,
                   !.data = 0, !.abandoned = @ + 1]

\* top of while (true): the cancellation check, then the call of page.goto
LoopTop(r, flag) ==
  IF flag
    THEN FinallyBlock([r EXCEPT !.checkCount = @ + 1], Throw("stopped by user"))
    ELSE [r EXCEPT !.pc = "goto", !.checkCount = @ + 1, !.gotoCount = @ + 1,
                   !.data = 0]

\* an iteration that navigates again at once instead of sleeping
StartRetryDelayNoSleep(r) == [r EXCEPT !.pc = "goto", !.gotoCount = @ + 1, !.data = 0]

\* end of an attempt that did not return: the retry sleep is started
StartRetryDelay(r) == [r EXCEPT !.pc = "sleep", !.sleepCount = @ + 1]

\* an iteration that reports the button but goes on polling
AfterEvaluateNoReturn(r, dom) ==
  LET d == ExtractButton(dom)
      r1 == [r EXCEPT !.dom = dom, !.data = d]
  IN IF d # 0
       THEN StartRetryDelay([r1 EXCEPT !.foundCount = @ + 1])
       ELSE StartRetryDelay([r1 EXCEPT !.nullCount = @ + 1])

\* if (data) return data; else retry
AfterEvaluate(r, dom) ==
  LET d == ExtractButton(dom)
      r1 == [r EXCEPT !.dom = dom, !.data = d]
  IN IF d # 0
       THEN FinallyBlock([r1 EXCEPT !.foundCount = @ + 1], Return(d))
       ELSE StartRetryDelay([r1 EXCEPT !.nullCount = @ + 1])

\* ---- the /scrape handler after the await ----

FinalMessage(comp) ==
  IF comp.kind = "return"
    THEN [kind |-> "ButtonFound", data |-> comp.data, err |-> ""]
    ELSE [kind |-> "ScrapingStopped", data |-> 0, err |-> comp.err]

\* a handler whose catch block only logs and sends nothing
HandlerContinuationSilentCatch(r) ==
  [r EXCEPT !.pc = "done", !.outcome = Outcome(r.completion),
            !.msgs = IF r.completion.kind = "return"
                       THEN Append(@, FinalMessage(r.completion)) ELSE @,
            !.relCount = @ + 1]

\* try { data = await ...; sendMessage } catch { sendMessage } finally { delete }
HandlerContinuation(r) ==
  [r EXCEPT !.pc = "done", !.outcome = Outcome(r.completion),
            !.msgs = Append(@, FinalMessage(r.completion)),
            !.relCount = @ + 1]

\* a handler whose delete sits at the end of the try block instead of in finally
HandlerFinallyOnSuccessOnly(reg, r) ==
  IF r.completion.kind = "return" THEN [reg EXCEPT ![r.chat] = 0] ELSE reg

\* a release that empties the whole registry
HandlerFinallyClearsAll(reg, r) == [c \in Chats |-> 0]

\* finally { delete scrapingControllers[chatId]; }
HandlerFinally(reg, r) == [reg EXCEPT ![r.chat] = 0]

\* The session s continues as r2; if scrapeUntilButtonFound has settled, the
\* handler runs to its end in the same turn.
Continue(s, r2) ==
  IF r2.pc = "settled"
    THEN /\ sess' = [sess EXCEPT ![s] = HandlerContinuation(r2)]
         /\ scrapingControllers' = HandlerFinally(scrapingControllers, r2)
         /\ ev' = [op |-> "final", chat |-> r2.chat, url |-> NoUrl,
                   reply |-> FinalMessage(r2.completion).kind]
    ELSE /\ sess' = [sess EXCEPT ![s] = r2]
         /\ UNCHANGED scrapingControllers
         /\ ev' = StepEvent

\* ---- command handlers ----

\* a /scrape handler without the check for an active entry
ScrapeNoAdmissionCheck(c, u) ==
  IF ~ValidURL(u)
    THEN /\ ev' = [op |-> "scrape", chat |-> c, url |-> u, reply |-> "InvalidURL"]
         /\ UNCHANGED <<scrapingControllers, cancelled, sess, nextSid, race, scroll>>
    ELSE /\ nextSid \in Sids
         /\ cancelled' = [cancelled EXCEPT ![nextSid] = FALSE]
         /\ scrapingControllers' = [scrapingControllers EXCEPT ![c] = nextSid]
         /\ sess' = [sess EXCEPT ![nextSid] =
                       [NewSession EXCEPT !.pc = "launch", !.chat = c, !.url = u]]
         /\ nextSid' = nextSid + 1
         /\ ev' = [op |-> "scrape", chat |-> c, url |-> u, reply |-> "none"]
         /\ UNCHANGED <<race, scroll>>

\* a /scrape handler that looks for an active entry before it validates the URL
ScrapeAdmissionFirst(c, u) ==
  IF scrapingControllers[c] # 0
    THEN /\ ev' = [op |-> "scrape", chat |-> c, url |-> u, reply |-> "AlreadyRunning"]
         /\ UNCHANGED <<scrapingControllers, cancelled, sess, nextSid, race, scroll>>
    ELSE IF ~ValidURL(u)
      THEN /\ ev' = [op |-> "scrape", chat |-> c, url |-> u, reply |-> "InvalidURL"]
           /\ UNCHANGED <<scrapingControllers, cancelled, sess, nextSid, race, scroll>>
      ELSE /\ nextSid \in Sids
           /\ cancelled' = [cancelled EXCEPT ![nextSid] = FALSE]
           /\ scrapingControllers' = [scrapingControllers EXCEPT ![c] = nextSid]
           /\ sess' = [sess EXCEPT ![nextSid] =
                         [NewSession EXCEPT !.pc = "launch", !.chat = c, !.url = u]]
           /\ nextSid' = nextSid + 1
           /\ ev' = [op |-> "scrape", chat |-> c, url |-> u, reply |-> "none"]
           /\ UNCHANGED <<race, scroll>>

\* bot.onText(/\/scrape (.+)/) up to the first await (puppeteer.launch)
Scrape(c, u) ==
  IF ~ValidURL(u)
    THEN /\ ev' = [op |-> "scrape", chat |-> c, url |-> u, reply |-> "InvalidURL"]
         /\ UNCHANGED <<scrapingControllers, cancelled, sess, nextSid, race, scroll>>
    ELSE IF scrapingControllers[c] # 0
      THEN /\ ev' = [op |-> "scrape", chat |-> c, url |-> u, reply |-> "AlreadyRunning"]
           /\ UNCHANGED <<scrapingControllers, cancelled, sess, nextSid, race, scroll>>
      ELSE /\ nextSid \in Sids
           /\ cancelled' = [cancelled EXCEPT ![nextSid] = FALSE]
           /\ scrapingControllers' = [scrapingControllers EXCEPT ![c] = nextSid]
           /\ sess' = [sess EXCEPT ![nextSid] =
                         [NewSession EXCEPT !.pc = "launch", !.chat = c, !.url = u]]
           /\ nextSid' = nextSid + 1
           /\ ev' = [op |-> "scrape", chat |-> c, url |-> u, reply |-> "none"]
           /\ UNCHANGED <<race, scroll>>

\* a /stop handler that reports 'stopped' whether or not an entry exists
StopNoPresenceCheck(c) ==
  /\ cancelled' = IF scrapingControllers[c] # 0
                    THEN [cancelled EXCEPT ![scrapingControllers[c]] = TRUE]
                    ELSE cancelled
  /\ ev' = [op |-> "stop", chat |-> c, url |-> NoUrl, reply |-> "Stopped"]
  /\ UNCHANGED <<scrapingControllers, sess, nextSid, race, scroll>>

\* a /stop handler that flips the flag instead of setting it
StopToggle(c) ==
  IF scrapingControllers[c] # 0
    THEN /\ cancelled' = [cancelled EXCEPT ![scrapingControllers[c]] = ~@]
         /\ ev' = [op |-> "stop", chat |-> c, url |-> NoUrl, reply |-> "Stopped"]
         /\ UNCHANGED <<scrapingControllers, sess, nextSid, race, scroll>>
    ELSE /\ ev' = [op |-> "stop", chat |-> c, url |-> NoUrl, reply |-> "NoActive"]
         /\ UNCHANGED <<scrapingControllers, cancelled, sess, nextSid, race, scroll>>

\* bot.onText(/\/stop/)
Stop(c) ==
  IF scrapingControllers[c] # 0
    THEN /\ cancelled' = [cancelled EXCEPT ![scrapingControllers[c]] = TRUE]
         /\ ev' = [op |-> "stop", chat |-> c, url |-> NoUrl, reply |-> "Stopped"]
         /\ UNCHANGED <<scrapingControllers, sess, nextSid, race, scroll>>
    ELSE /\ ev' = [op |-> "stop", chat |-> c, url |-> NoUrl, reply |-> "NoActive"]
         /\ UNCHANGED <<scrapingControllers, cancelled, sess, nextSid, race, scroll>>

\* ---- steps of a session ----

LaunchResolve(s) ==
  /\ sess[s].pc = "launch"
  /\ Continue(s, [sess[s] EXCEPT !.pc = "newPage", !.browser = "open"])
  /\ UNCHANGED <<cancelled, nextSid, race, scroll>>

LaunchReject(s) ==
  /\ sess[s].pc = "launch"
  /\ Continue(s, FinallyBlock(sess[s], Throw("launch failed")))
  /\ UNCHANGED <<cancelled, nextSid, race, scroll>>

NewPageResolve(s) ==
  /\ sess[s].pc = "newPage"
  /\ Continue(s, [sess[s] EXCEPT !.pc = "setUserAgent"])
  /\ UNCHANGED <<cancelled, nextSid, race, scroll>>

NewPageReject(s) ==
  /\ sess[s].pc = "newPage"
  /\ Continue(s, FinallyBlock(sess[s], Throw("newPage failed")))
  /\ UNCHANGED <<cancelled, nextSid, race, scroll>>

SetUserAgentResolve(s) ==
  /\ sess[s].pc = "setUserAgent"
  /\ cancelled[s] \/ GotoBudget
  /\ Continue(s, LoopTop(sess[s], cancelled[s]))
  /\ UNCHANGED <<cancelled, nextSid, race, scroll>>

SetUserAgentReject(s) ==
  /\ sess[s].pc = "setUserAgent"
  /\ Continue(s, FinallyBlock(sess[s], Throw("setUserAgent failed")))
  /\ UNCHANGED <<cancelled, nextSid, race, scroll>>

\* a navigation whose timeout is not caught by the inner try
NavigationSettleTimeoutEscapes(s, first) ==
  /\ sess[s].pc = "goto"
  /\ LET res == withTimeout(first)
         r1 == IF first = "timer"
                 THEN [sess[s] EXCEPT !.abandoned = @ + 1]
                 ELSE sess[s]
     IN Continue(s, CASE res = "ok" -> [r1 EXCEPT !.pc = "pause1"]
                      [] res = "opError" -> StartRetryDelay(r1)
                      [] res = "timeoutError" ->
                           FinallyBlock(r1, Throw("Page navigation timed out")))
  /\ UNCHANGED <<cancelled, nextSid, race, scroll>>

\* await withTimeout(page.goto(...), PAGE_TIMEOUT, ...): the race settles
NavigationSettle(s, first) ==
  /\ sess[s].pc = "goto"
  /\ LET res == withTimeout(first)
         \* a navigation that loses the race is not aborted: it stays in flight
         r1 == IF first = "timer"
                 THEN [sess[s] EXCEPT !.abandoned = @ + 1]
                 ELSE sess[s]
     IN Continue(s, IF res = "ok" THEN [r1 EXCEPT !.pc = "pause1"]
                                  ELSE StartRetryDelay(r1))
  /\ UNCHANGED <<cancelled, nextSid, race, scroll>>

\* await new Promise(r => setTimeout(r, 1000))
Pause1Done(s) ==
  /\ sess[s].pc = "pause1"
  /\ Continue(s, [sess[s] EXCEPT !.pc = "autoScroll"])
  /\ UNCHANGED <<cancelled, nextSid, race, scroll>>

AutoScrollResolve(s) ==
  /\ sess[s].pc = "autoScroll"
  /\ Continue(s, [sess[s] EXCEPT !.pc = "pause2"])
  /\ UNCHANGED <<cancelled, nextSid, race, scroll>>

AutoScrollReject(s) ==
  /\ sess[s].pc = "autoScroll"
  /\ Continue(s, StartRetryDelay(sess[s]))
  /\ UNCHANGED <<cancelled, nextSid, race, scroll>>

\* await new Promise(r => setTimeout(r, 2000))
Pause2Done(s) ==
  /\ sess[s].pc = "pause2"
  /\ Continue(s, [sess[s] EXCEPT !.pc = "evaluate"])
  /\ UNCHANGED <<cancelled, nextSid, race, scroll>>

\* an extraction whose result is dropped when the flag was set meanwhile
EvaluateResolveChecksFlag(s, dom) ==
  /\ sess[s].pc = "evaluate"
  /\ Continue(s, IF cancelled[s]
                   THEN FinallyBlock(sess[s], Throw("stopped by user"))
                   ELSE AfterEvaluate(sess[s], dom))
  /\ UNCHANGED <<cancelled, nextSid, race, scroll>>

EvaluateResolve(s, dom) ==
  /\ sess[s].pc = "evaluate"
  /\ Continue(s, AfterEvaluate(sess[s], dom))
  /\ UNCHANGED <<cancelled, nextSid, race, scroll>>

EvaluateReject(s) ==
  /\ sess[s].pc = "evaluate"
  /\ Continue(s, StartRetryDelay(sess[s]))
  /\ UNCHANGED <<cancelled, nextSid, race, scroll>>

\* the retry sleep ends; the loop goes round
RetryDelayDone(s) ==
  /\ sess[s].pc = "sleep"
  /\ cancelled[s] \/ GotoBudget
  /\ Continue(s, LoopTop(sess[s], cancelled[s]))
  /\ UNCHANGED <<cancelled, nextSid, race, scroll>>

CloseResolve(s) ==
  /\ sess[s].pc = "close"
  /\ Continue(s, [sess[s] EXCEPT !.pc = "settled", !.browser = "closed"])
  /\ UNCHANGED <<cancelled, nextSid, race, scroll>>

CloseReject(s) ==
  /\ sess[s].pc = "close"
  /\ Continue(s, [sess[s] EXCEPT !.pc = "settled", !.browser = "closeFailed",
                                 !.completion = Throw("close failed")])
  /\ UNCHANGED <<cancelled, nextSid, race, scroll>>

\* a navigation that lost its race settles; nobody is waiting for it
AbandonedNavigationSettle(s) ==
  /\ sess[s].abandoned > 0
  /\ sess' = [sess EXCEPT ![s].abandoned = @ - 1]
  /\ ev' = StepEvent
  /\ UNCHANGED <<scrapingControllers, cancelled, nextSid, race, scroll>>

Next ==
  \/ \E c \in Chats, u \in Urls : Scrape(c, u)
  \/ \E c \in Chats : Stop(c)
  \/ \E s \in Sids : LaunchResolve(s)
  \/ \E s \in Sids : LaunchReject(s)
  \/ \E s \in Sids : NewPageResolve(s)
  \/ \E s \in Sids : NewPageReject(s)
  \/ \E s \in Sids : SetUserAgentResolve(s)
  \/ \E s \in Sids : SetUserAgentReject(s)
  \/ \E s \in Sids, first \in {"resolve", "reject", "timer"} : NavigationSettle(s, first)
  \/ \E s \in Sids : Pause1Done(s)
  \/ \E s \in Sids : AutoScrollResolve(s)
  \/ \E s \in Sids : AutoScrollReject(s)
  \/ \E s \in Sids : Pause2Done(s)
  \/ \E s \in Sids, dom \in Doms : EvaluateResolve(s, dom)
  \/ \E s \in Sids : EvaluateReject(s)
  \/ \E s \in Sids : RetryDelayDone(s)
  \/ \E s \in Sids : CloseResolve(s)
  \/ \E s \in Sids : CloseReject(s)
  \/ \E s \in Sids : AbandonedNavigationSettle(s)

Spec == Init /\ [][Next]_vars

\* ---- scheduling ----

\* Timers fire, and a navigation under withTimeout settles: it completes or
\* the timer of the guard ends the wait.
TimerFairness ==
  \A s \in Sids :
    /\ WF_vars(\E first \in {"resolve", "reject", "timer"} : NavigationSettle(s, first))
    /\ WF_vars(Pause1Done(s))
    /\ WF_vars(Pause2Done(s))
    /\ WF_vars(RetryDelayDone(s))

\* Starting and closing the browser and setting up the page settle.
SetupFairness ==
  \A s \in Sids :
    /\ WF_vars(LaunchResolve(s) \/ LaunchReject(s))
    /\ WF_vars(NewPageResolve(s) \/ NewPageReject(s))
    /\ WF_vars(SetUserAgentResolve(s) \/ SetUserAgentReject(s))
    /\ WF_vars(CloseResolve(s) \/ CloseReject(s))

\* The scroll and the extraction of an attempt, which run in the page and
\* which no timer guards, settle.
PageFairness ==
  \A s \in Sids :
    /\ WF_vars(AutoScrollResolve(s) \/ AutoScrollReject(s))
    /\ WF_vars((\E dom \in Doms : EvaluateResolve(s, dom)) \/ EvaluateReject(s))

\* the conversation whose sessions are followed to their end
FairChats == {1}

\* the steps of Next, with the commands of one conversation
NextFair ==
  \/ \E c \in FairChats, u \in Urls : Scrape(c, u)
  \/ \E c \in FairChats : Stop(c)
  \/ \E s \in Sids : LaunchResolve(s)
  \/ \E s \in Sids : LaunchReject(s)
  \/ \E s \in Sids : NewPageResolve(s)
  \/ \E s \in Sids : NewPageReject(s)
  \/ \E s \in Sids : SetUserAgentResolve(s)
  \/ \E s \in Sids : SetUserAgentReject(s)
  \/ \E s \in Sids, first \in {"resolve", "reject", "timer"} : NavigationSettle(s, first)
  \/ \E s \in Sids : Pause1Done(s)
  \/ \E s \in Sids : AutoScrollResolve(s)
  \/ \E s \in Sids : AutoScrollReject(s)
  \/ \E s \in Sids : Pause2Done(s)
  \/ \E s \in Sids, dom \in Doms : EvaluateResolve(s, dom)
  \/ \E s \in Sids : EvaluateReject(s)
  \/ \E s \in Sids : RetryDelayDone(s)
  \/ \E s \in Sids : CloseResolve(s)
  \/ \E s \in Sids : CloseReject(s)
  \/ \E s \in Sids : AbandonedNavigationSettle(s)

SpecFair == Init /\ [][NextFair]_vars /\ TimerFairness /\ SetupFairness

\* ---- withTimeout(promise, ms, errorMessage), one call followed on its own ----

MaxMs == 2
MaxTime == 3

\* what the wrapped promise may resolve with or reject with, and the messages
\* a caller may give for the timeout
Values == {"response", "no response"}
OpErrors == {"net::ERR_NAME_NOT_RESOLVED", "frame detached"}
ErrorMessages == {"Page navigation timed out", "operation timed out"}

Fulfilled(v) == [kind |-> "fulfilled", val |-> v]
Rejected(e) == [kind |-> "rejected", val |-> e]

\* a race whose result follows the last settlement
RaceSettleLastWins(cur, new) == new

\* Promise.race: the returned promise takes the first settlement of its
\* members; a settlement that arrives later has no effect on it
RaceSettle(cur, new) == IF cur.kind = "pending" THEN new ELSE cur

\* withTimeout is called: the timer is armed, the promise is pending
InitRace ==
  /\ scrapingControllers = [c \in Chats |-> 0]
  /\ cancelled = [s \in Sids |-> FALSE]
  /\ sess = [s \in Sids |-> NewSession]
  /\ nextSid = 1
  /\ ev = [op |-> "init", chat |-> 0, url |-> NoUrl, reply |-> "none"]
  /\ scroll = NoScroll
  /\ \E ms \in 1..MaxMs, errorMessage \in ErrorMessages :
       race = [NoRace EXCEPT !.ms = ms, !.errorMessage = errorMessage,
                             !.timer = "armed"]

\* the wrapped promise resolves
PromiseResolve(v) ==
  /\ race.timer # "none" /\ race.promise = Pending
  /\ race' = [race EXCEPT !.promise = Fulfilled(v),
                          !.result = RaceSettle(@, Fulfilled(v)),
                          !.first = IF @ = "none" THEN "promise" ELSE @]
  /\ UNCHANGED <<scrapingControllers, cancelled, sess, nextSid, ev, scroll>>

\* the wrapped promise rejects
PromiseReject(e) ==
  /\ race.timer # "none" /\ race.promise = Pending
  /\ race' = [race EXCEPT !.promise = Rejected(e),
                          !.result = RaceSettle(@, Rejected(e)),
                          !.first = IF @ = "none" THEN "promise" ELSE @]
  /\ UNCHANGED <<scrapingControllers, cancelled, sess, nextSid, ev, scroll>>

\* setTimeout(() => reject(new Error(errorMessage)), ms): the timer is never
\* cleared, it fires after ms whether or not the promise has settled
TimerFire ==
  /\ race.timer = "armed" /\ race.now >= race.ms
  /\ race' = [race EXCEPT !.timer = "fired",
                          !.result = RaceSettle(@, Rejected(race.errorMessage)),
                          !.first = IF @ = "none" THEN "timer" ELSE @]
  /\ UNCHANGED <<scrapingControllers, cancelled, sess, nextSid, ev, scroll>>

\* time passes
ClockTick ==
  /\ race.timer # "none" /\ race.now < MaxTime
  /\ race' = [race EXCEPT !.now = @ + 1]
  /\ UNCHANGED <<scrapingControllers, cancelled, sess, nextSid, ev, scroll>>

NextRace ==
  \/ \E v \in Values : PromiseResolve(v)
  \/ \E e \in OpErrors : PromiseReject(e)
  \/ TimerFire
  \/ ClockTick

SpecRace == InitRace /\ [][NextRace]_vars

\* ---- autoScroll(page), one call followed on its own ----

\* const distance = 500
distance == 500

MaxHeightHundreds == 16
MaxGrown == 1

\* document heights and window heights the call may meet
DocHeights == {100 * k : k \in 0..MaxHeightHundreds}
Viewports == {300, 600}

Min2(a, b) == IF a <= b THEN a ELSE b
Max2(a, b) == IF a >= b THEN a ELSE b

\* window.scrollBy(0, d): the position moves by d but not past the bottom
ScrollBy(y, d, scrollHeight, innerHeight) ==
  Min2(y + d, Max2(scrollHeight - innerHeight, 0))

\* a loop that stops only once the distance exceeds the height
ScrollStopsStrict(totalHeight, scrollHeight) == totalHeight > scrollHeight

\* if (totalHeight >= scrollHeight)
ScrollStops(totalHeight, scrollHeight) == totalHeight >= scrollHeight

\* autoScroll is called: the interval is set, nothing was scrolled yet
InitScroll ==
  /\ scrapingControllers = [c \in Chats |-> 0]
  /\ cancelled = [s \in Sids |-> FALSE]
  /\ sess = [s \in Sids |-> NewSession]
  /\ nextSid = 1
  /\ ev = [op |-> "init", chat |-> 0, url |-> NoUrl, reply |-> "none"]
  /\ race = NoRace
  /\ \E h \in DocHeights, v \in Viewports :
       scroll = [NoScroll EXCEPT !.state = "running", !.scrollHeight = h,
                                 !.innerHeight = v]

\* one run of the setInterval callback
IntervalTick ==
  /\ scroll.state = "running"
  /\ LET scrollHeight == scroll.scrollHeight
         y == ScrollBy(scroll.scrollY, distance, scrollHeight, scroll.innerHeight)
         totalHeight == scroll.totalHeight + distance
     IN scroll' = [scroll EXCEPT
                     !.scrollY = y,
                     !.totalHeight = totalHeight,
                     !.ticks = @ + 1,
                     !.advanced = y > scroll.scrollY,
                     !.stalls = IF y > scroll.scrollY THEN @ ELSE @ + 1,
                     !.state = IF ScrollStops(totalHeight, scrollHeight)
                                 THEN "resolved" ELSE "running"]
  /\ UNCHANGED <<scrapingControllers, cancelled, sess, nextSid, ev, race>>

\* between two ticks the page appends content that scrolling made it load
ContentLoaded ==
  /\ scroll.state = "running" /\ scroll.ticks > 0 /\ scroll.grown < MaxGrown
  /\ scroll' = [scroll EXCEPT !.scrollHeight = @ + 700, !.grown = @ + 1]
  /\ UNCHANGED <<scrapingControllers, cancelled, sess, nextSid, ev, race>>

NextScroll ==
  \/ IntervalTick
  \/ ContentLoaded

SpecScroll == InitScroll /\ [][NextScroll]_vars

\* ---- vocabulary of the properties ----

Live(s) == sess[s].pc \notin {"idle", "done"}
Done(s) == sess[s].pc = "done"
LiveSessions(c) == {s \in Sids : sess[s].chat = c /\ Live(s)}
AttemptPcs == {"goto", "pause1", "autoScroll", "pause2", "evaluate"}
Cancel == Throw("stopped by user")

TypeOK ==
  /\ scrapingControllers \in [Chats -> {0} \cup Sids]
  /\ cancelled \in [Sids -> BOOLEAN]
  /\ nextSid \in Sids \cup {Cardinality(Sids) + 1}

\* C1: the registry holds at most one cancellation handle per conversation: at
\* most one session of a conversation is alive at any time, and a /scrape for
\* a conversation that has an entry is rejected ('already running' when its
\* URL is well formed), creates no handle, starts no session (no browser
\* launch) and leaves the entry and every cancelled flag as they were.
C1_OneHandlePerConversation ==
  [][ /\ \A c \in Chats : Cardinality(LiveSessions(c))' <= 1
      /\ \A c \in Chats :
           (ev'.op = "scrape" /\ ev'.chat = c /\ scrapingControllers[c] # 0)
             => /\ ev'.reply \in {"AlreadyRunning", "InvalidURL"}
                /\ ValidURL(ev'.url) => ev'.reply = "AlreadyRunning"
                /\ UNCHANGED <<scrapingControllers, cancelled, sess, nextSid>>
    ]_vars

\* a /scrape was just rejected as already running while the conversation's
\* session is alive
C1_Witness ==
  /\ ev.op = "scrape" /\ ev.reply = "AlreadyRunning"
  /\ scrapingControllers[ev.chat] # 0
  /\ LiveSessions(ev.chat) # {}

\* C2: every admitted session releases its registry entry exactly once, on
\* every outcome path: while the session is alive its entry is in the registry
\* and nothing was released; once its handler has finished the entry is gone
\* and exactly one release happened.
C2_ReleaseExactlyOnce ==
  \A s \in Sids :
    /\ sess[s].relCount <= 1
    /\ Live(s) => sess[s].relCount = 0 /\ scrapingControllers[sess[s].chat] = s
    /\ Done(s) => sess[s].relCount = 1 /\ scrapingControllers[sess[s].chat] # s

\* sessions have ended on each path, here: one by an error thrown by
\* browser.close(), one by a failed launch, both released
C2_Witness ==
  /\ \E s \in Sids : Done(s) /\ sess[s].completion = Throw("close failed")
                        /\ sess[s].relCount = 1
  /\ \E s \in Sids : Done(s) /\ sess[s].completion = Throw("launch failed")
                        /\ sess[s].relCount = 1
  /\ \A c \in Chats : scrapingControllers[c] = 0

\* C3: once the cancellation flag of a session is set, the session calls
\* page.goto no more; a flag set while no attempt is in flight (during the
\* retry sleep) is seen at the next check, which leaves the loop as Cancelled
\* without a navigation, and the session then ends as Cancelled (when
\* browser.close() does not itself throw).
C3_CancelStopsNavigation ==
  [][ \A s \in Sids :
        /\ cancelled[s] => sess'[s].gotoCount = sess[s].gotoCount
        /\ (cancelled[s] /\ sess[s].pc = "sleep" /\ sess'[s].pc # "sleep")
             => /\ sess'[s].loopExit = Cancel
                /\ sess'[s].pc = "close"
        /\ (sess[s].pc = "close" /\ sess[s].loopExit = Cancel /\ Done(s)'
               /\ sess'[s].browser = "closed")
             => sess'[s].outcome = "Cancelled"
    ]_vars

\* a session that slept, saw the flag at the check and ended as Cancelled
C3_Witness ==
  \E s \in Sids : /\ Done(s) /\ sess[s].outcome = "Cancelled"
                   /\ sess[s].sleepCount >= 1
                   /\ sess[s].gotoCount = sess[s].sleepCount

C4_State(s) ==
  /\ Len(sess[s].msgs) <= 1
  /\ sess[s].outcome \in {"none", "Found", "Cancelled", "Failed"}
  /\ Done(s) <=> Len(sess[s].msgs) = 1
  /\ Done(s) <=> sess[s].outcome # "none"
  /\ sess[s].outcome = "Found"
       => sess[s].msgs = <<[kind |-> "ButtonFound", data |-> sess[s].data, err |-> ""]>>
  /\ sess[s].outcome \in {"Cancelled", "Failed"}
       => sess[s].msgs = <<[kind |-> "ScrapingStopped", data |-> 0,
                            err |-> sess[s].completion.err]>>
  /\ sess[s].outcome = "Cancelled" <=> (Done(s) /\ sess[s].completion = Cancel)

\* C4: a session that has ended has exactly one outcome among Found,
\* Cancelled and Failed and its handler has sent exactly one final message,
\* the one of that outcome; a session that has not ended has sent none; and
\* after the end nothing of the session moves any more (no navigation, no
\* sleep, no message, no outcome).
C4_OneOutcomeOneMessage ==
  [][ \A s \in Sids :
        /\ C4_State(s)'
        /\ Done(s) => sess'[s] = [sess[s] EXCEPT !.abandoned = sess'[s].abandoned]
    ]_vars

\* one session ended as Found and one as Failed, each with its one message
C4_Witness ==
  /\ \E s \in Sids : sess[s].outcome = "Found" /\ Len(sess[s].msgs) = 1
  /\ \E s \in Sids : sess[s].outcome = "Failed" /\ Len(sess[s].msgs) = 1

\* C5: browser.close() is called exactly once for a session whose browser was
\* launched, and only after the loop has been left (by return, by the
\* cancellation error or by an error of newPage or setUserAgent); it is not
\* called while the session polls and not called without a browser.
C5_CloseExactlyOnce ==
  \A s \in Sids :
    /\ sess[s].closeCount <= 1
    /\ sess[s].closeCount = 1
         <=> (sess[s].browser # "undefined" /\ sess[s].pc \in {"close", "done"})
    /\ sess[s].pc \in {"close", "done"} => sess[s].loopExit.kind # "none"
    /\ sess[s].pc \in AttemptPcs \cup {"sleep", "newPage", "setUserAgent"}
         => sess[s].browser = "open" /\ sess[s].loopExit.kind = "none"

\* a session left by a newPage error and one left by return, each closed once
C5_Witness ==
  /\ \E s \in Sids : Done(s) /\ sess[s].loopExit = Throw("newPage failed")
                        /\ sess[s].closeCount = 1
  /\ \E s \in Sids : Done(s) /\ sess[s].loopExit.kind = "return"
                        /\ sess[s].closeCount = 1

\* C6: a failure inside an attempt never ends the session: every step out of
\* an attempt goes on within the attempt, starts the retry sleep, or returns
\* the extracted data; the sleep is followed by the cancellation check; and
\* the loop is left by an error other than the cancellation only from launch,
\* newPage or setUserAgent.
C6_AttemptFailureRetries ==
  [][ \A s \in Sids :
        /\ (sess[s].pc \in AttemptPcs /\ sess'[s].pc # sess[s].pc)
             => \/ sess'[s].pc \in AttemptPcs /\ sess'[s].loopExit.kind = "none"
                \/ /\ sess'[s].pc = "sleep"
                   /\ sess'[s].loopExit.kind = "none"
                   /\ sess'[s].sleepCount = sess[s].sleepCount + 1
                \/ /\ sess[s].pc = "evaluate"
                   /\ sess'[s].pc = "close"
                   /\ sess'[s].loopExit.kind = "return"
        /\ (sess[s].pc = "sleep" /\ sess'[s].pc # "sleep")
             => \/ ~cancelled[s] /\ sess'[s].pc = "goto"
                \/ cancelled[s] /\ sess'[s].loopExit = Cancel
        /\ (sess[s].loopExit.kind = "none" /\ sess'[s].loopExit.kind = "throw"
               /\ sess'[s].loopExit # Cancel)
             => sess[s].pc \in {"launch", "newPage", "setUserAgent"}
    ]_vars

\* a third navigation is under way after two attempts that failed, one of them
\* by the timeout (its navigation is still in flight)
C6_Witness ==
  \E s \in Sids : /\ sess[s].pc = "goto" /\ sess[s].gotoCount = 3
                   /\ sess[s].sleepCount = 2 /\ sess[s].abandoned >= 1
                   /\ sess[s].outcome = "none"

\* C7: the session returns at the first attempt whose extraction yields a
\* visible button, with that attempt's data: a loop left by return has seen
\* exactly one such extraction, the last one, every earlier attempt ended in
\* a retry sleep, no navigation follows, and the session ends as Found with a
\* message carrying that data (when browser.close() does not itself throw).
C7_FoundAtFirstVisible ==
  \A s \in Sids :
    /\ sess[s].foundCount <= 1
    /\ sess[s].foundCount = 1 <=> sess[s].loopExit.kind = "return"
    /\ sess[s].data # 0 => sess[s].loopExit.kind = "return"
    /\ sess[s].loopExit.kind = "return"
         => /\ sess[s].dom.button /\ ~sess[s].dom.hide
            /\ sess[s].loopExit.data = sess[s].dom.snap
            /\ sess[s].gotoCount = sess[s].sleepCount + 1
            /\ sess[s].pc \in {"close", "done"}
    /\ (Done(s) /\ sess[s].loopExit.kind = "return" /\ sess[s].browser = "closed")
         => /\ sess[s].outcome = "Found"
            /\ sess[s].msgs = <<[kind |-> "ButtonFound", data |-> sess[s].dom.snap,
                                 err |-> ""]>>

\* two extractions found nothing, the third attempt saw the visible button
\* with data 2: Found with data 2 after exactly three navigations
C7_Witness ==
  \E s \in Sids : /\ Done(s) /\ sess[s].outcome = "Found"
                   /\ sess[s].gotoCount = 3 /\ sess[s].nullCount = 2
                   /\ sess[s].msgs[1].data = 2 /\ sess[s].dom.snap = 2

HiddenOrAbsent(dom) == dom \in Doms /\ (~dom.button \/ dom.hide)

\* C8: a button carrying the class 'hide' is treated as an absent one: the
\* extraction of such a document yields no data, the attempt ends in the
\* retry sleep exactly as for an absent button, and a session whose last
\* extraction saw a hidden or absent button has not returned and is not Found.
C8_HiddenIsNotFound ==
  [][ \A s \in Sids :
        /\ (sess[s].pc = "evaluate" /\ sess'[s].pc # "evaluate"
               /\ HiddenOrAbsent(sess'[s].dom) /\ sess'[s].nullCount # sess[s].nullCount)
             => sess'[s] = [sess[s] EXCEPT !.pc = "sleep", !.sleepCount = @ + 1,
                                           !.nullCount = @ + 1, !.data = 0,
                                           !.dom = sess'[s].dom]
        /\ (sess[s].pc = "evaluate" /\ sess'[s].foundCount # sess[s].foundCount)
             => ~HiddenOrAbsent(sess'[s].dom)
        /\ HiddenOrAbsent(sess'[s].dom)
             => sess'[s].loopExit.kind # "return" /\ sess'[s].outcome # "Found"
    ]_vars

\* the session is navigating again after an attempt that saw the hidden button
C8_Witness ==
  \E s \in Sids : /\ sess[s].dom.button /\ sess[s].dom.hide
                   /\ sess[s].pc = "goto" /\ sess[s].gotoCount >= 2
                   /\ sess[s].nullCount >= 1

LaunchFailedState(s) ==
  /\ Done(s)
  /\ sess[s].gotoCount = 0 /\ sess[s].sleepCount = 0
  /\ sess[s].closeCount = 0 /\ sess[s].browser = "undefined"
  /\ sess[s].outcome = "Failed"
  /\ sess[s].msgs = <<[kind |-> "ScrapingStopped", data |-> 0, err |-> "launch failed"]>>
  /\ sess[s].relCount = 1
  /\ scrapingControllers[sess[s].chat] # s

\* C9: a failed launch ends the session at once as Failed: the step that
\* leaves the launch either has a browser, or has finished the session with
\* no navigation, no sleep, no browser.close(), the failure message sent and
\* the registry entry of the conversation removed.
C9_LaunchFailureIsImmediate ==
  [][ \A s \in Sids :
        /\ (sess[s].pc = "launch" /\ sess'[s].pc # "launch")
             => \/ sess'[s].pc = "newPage" /\ sess'[s].browser = "open"
                \/ /\ sess'[s].loopExit = Throw("launch failed")
                   /\ scrapingControllers'[sess[s].chat] = 0
                   /\ ev' = [op |-> "final", chat |-> sess[s].chat, url |-> NoUrl,
                             reply |-> "ScrapingStopped"]
        /\ sess'[s].loopExit = Throw("launch failed") => LaunchFailedState(s)'
    ]_vars

\* a session whose launch failed
C9_Witness ==
  \E s \in Sids : sess[s].loopExit = Throw("launch failed") /\ LaunchFailedState(s)

\* C10: /stop sets the flag of the stored handle and answers 'stopped' exactly
\* when the conversation has an entry, and touches nothing else; without an
\* entry it answers 'no active session' and changes nothing; an entry always
\* belongs to a live session of that conversation, so a /stop after the
\* release reaches no handle, neither the old one nor a later session's.
C10_StopOnlyHitsActiveEntry ==
  [][ /\ \A c \in Chats :
           (ev'.op = "stop" /\ ev'.chat = c)
             => IF scrapingControllers[c] # 0
                  THEN /\ ev'.reply = "Stopped"
                       /\ cancelled' = [cancelled EXCEPT ![scrapingControllers[c]] = TRUE]
                       /\ UNCHANGED <<scrapingControllers, sess, nextSid>>
                  ELSE /\ ev'.reply = "NoActive"
                       /\ UNCHANGED <<scrapingControllers, cancelled, sess, nextSid>>
      /\ \A c \in Chats :
           scrapingControllers'[c] # 0
             => /\ sess'[scrapingControllers'[c]].chat = c
                /\ sess'[scrapingControllers'[c]].pc \notin {"idle", "done"}
      /\ \A s \in Sids : (Done(s) \/ sess[s].pc = "idle") => cancelled'[s] = cancelled[s]
    ]_vars

\* a /stop has just found no entry in a conversation whose earlier session
\* ended without ever being cancelled
C10_Witness ==
  /\ ev.op = "stop" /\ ev.reply = "NoActive"
  /\ \E s \in Sids : Done(s) /\ sess[s].chat = ev.chat /\ ~cancelled[s]

\* C11: the flag of a cancellation handle only ever goes from false to true:
\* no step resets a set flag; and every admitted /scrape stores a handle that
\* no earlier session used, with cancelled = false, so the new session starts
\* uncancelled whatever /stop did to earlier sessions of the conversation.
C11_FlagMonotonicFreshHandle ==
  [][ /\ \A s \in Sids : cancelled[s] => cancelled'[s]
      /\ \A c \in Chats :
           (ev'.op = "scrape" /\ ev'.chat = c /\ ev'.reply = "none")
             => /\ scrapingControllers'[c] \in Sids
                /\ scrapingControllers'[c] # scrapingControllers[c]
                /\ sess[scrapingControllers'[c]].pc = "idle"
                /\ \A d \in Chats : scrapingControllers[d] # scrapingControllers'[c]
                /\ sess'[scrapingControllers'[c]].pc = "launch"
                /\ ~cancelled'[scrapingControllers'[c]]
    ]_vars

\* the second session of a conversation starts with a clear flag although the
\* first session of that conversation was cancelled
C11_Witness ==
  \E s1, s2 \in Sids :
    /\ sess[s1].chat = sess[s2].chat
    /\ Done(s1) /\ cancelled[s1]
    /\ sess[s2].pc = "launch" /\ ~cancelled[s2]

\* C12: a /scrape rejected for a malformed URL or for an active session
\* changes nothing (no entry, no handle, no session, no browser launch) and
\* sends only the rejection; a malformed URL is reported as invalid also
\* while the conversation has an active session, and 'already running' is
\* sent only for a well-formed URL on an occupied conversation.
C12_RejectionBeforeAcquisition ==
  [][ \A c \in Chats :
        (ev'.op = "scrape" /\ ev'.chat = c)
          => /\ ~ValidURL(ev'.url) <=> ev'.reply = "InvalidURL"
             /\ (ValidURL(ev'.url) /\ scrapingControllers[c] # 0)
                  <=> ev'.reply = "AlreadyRunning"
             /\ ev'.reply \in {"InvalidURL", "AlreadyRunning"}
                  => UNCHANGED <<scrapingControllers, cancelled, sess, nextSid>>
             /\ ev'.reply \in {"InvalidURL", "AlreadyRunning", "none"}
    ]_vars

\* a malformed URL was just rejected as invalid while a session is active
C12_Witness ==
  /\ ev.op = "scrape" /\ ev.reply = "InvalidURL"
  /\ scrapingControllers[ev.chat] # 0

\* C13: the attempts of a session are strictly sequential. A navigation is
\* started only when no attempt of the session is in progress (after
\* setUserAgent for the first one, after the retry sleep for the others), in
\* the step that ran the cancellation check and found the flag clear; a retry
\* sleep is started only by the step that ends an attempt without a result;
\* so attempt n is preceded by exactly n - 1 sleeps and n checks: exactly one
\* sleep and one check lie between two consecutive attempts.
C13_AttemptsSequential ==
  [][ \A s \in Sids :
        /\ sess'[s].gotoCount \in {sess[s].gotoCount, sess[s].gotoCount + 1}
        /\ sess'[s].gotoCount = sess[s].gotoCount + 1
             => /\ sess[s].pc \in {"setUserAgent", "sleep"}
                /\ sess[s].pc = "setUserAgent" <=> sess[s].gotoCount = 0
                /\ ~cancelled[s]
                /\ sess'[s].pc = "goto"
                /\ sess'[s].checkCount = sess[s].checkCount + 1
        /\ sess'[s].sleepCount \in {sess[s].sleepCount, sess[s].sleepCount + 1}
        /\ sess'[s].sleepCount = sess[s].sleepCount + 1
             => /\ sess[s].pc \in AttemptPcs
                /\ sess'[s].pc = "sleep"
                /\ sess'[s].gotoCount = sess[s].gotoCount
        /\ sess'[s].pc \in AttemptPcs
             => /\ sess'[s].gotoCount = sess'[s].sleepCount + 1
                /\ sess'[s].checkCount = sess'[s].gotoCount
        /\ sess'[s].pc = "sleep"
             => /\ sess'[s].gotoCount = sess'[s].sleepCount
                /\ sess'[s].checkCount = sess'[s].gotoCount
    ]_vars

\* a session is in its second attempt, after one sleep and two checks
C13_Witness ==
  \E s \in Sids :
    /\ sess[s].pc \in AttemptPcs
    /\ sess[s].gotoCount = 2 /\ sess[s].sleepCount = 1 /\ sess[s].checkCount = 2

\* C14: conversations are isolated. Every step (a /scrape, a /stop, a step of
\* a session, a release) belongs to one conversation and leaves the registry
\* entry, the sessions and the cancellation flags of every other conversation
\* as they were; and a session reads only its own handle: it leaves its loop
\* as cancelled only if the flag of the handle admitted for it is set, and it
\* starts a navigation only if that flag is clear, whatever the other flags.
C14_ConversationsIsolated ==
  [][ /\ \E a \in Chats :
           /\ ev'.op \in {"scrape", "stop", "final"} => ev'.chat = a
           /\ \A b \in Chats \ {a} :
                /\ scrapingControllers'[b] = scrapingControllers[b]
                /\ \A s \in Sids :
                     (sess[s].chat = b \/ sess'[s].chat = b)
                       => sess'[s] = sess[s] /\ cancelled'[s] = cancelled[s]
      /\ \A s \in Sids :
           /\ (sess'[s].loopExit = Cancel /\ sess[s].loopExit # Cancel) => cancelled[s]
           /\ sess'[s].gotoCount # sess[s].gotoCount => ~cancelled[s]
    ]_vars

\* two conversations have a session each; one was cancelled and left its
\* loop, the other, whose flag is clear, has started a navigation
C14_Witness ==
  \E s1, s2 \in Sids :
    /\ sess[s1].chat # sess[s2].chat
    /\ cancelled[s1] /\ sess[s1].loopExit = Cancel /\ sess[s1].pc = "done"
    /\ ~cancelled[s2] /\ sess[s2].pc = "goto"
    /\ scrapingControllers[sess[s1].chat] = 0
    /\ scrapingControllers[sess[s2].chat] = s2

\* C17: cancellation is observed only at the check at the top of the loop. A
\* /stop changes no session; a session leaves its loop as cancelled only from
\* the points where the check runs (after setUserAgent, after the retry
\* sleep); an attempt in flight whose flag is set goes on through its steps
\* as if it were clear, and when its extraction yields a visible button the
\* loop returns that data and the session ends as Found (when browser.close()
\* does not itself throw), although the flag is set.
C17_CancelOnlyAtLoopTop ==
  [][ /\ ev'.op = "stop" => sess' = sess
      /\ \A s \in Sids :
           /\ (sess'[s].loopExit = Cancel /\ sess[s].loopExit # Cancel)
                => sess[s].pc \in {"setUserAgent", "sleep"}
           /\ (cancelled[s] /\ sess[s].pc \in AttemptPcs /\ sess'[s] # sess[s])
                => /\ sess'[s].pc \in AttemptPcs \cup {"sleep", "close"}
                   /\ sess'[s].gotoCount = sess[s].gotoCount
                   /\ sess'[s].loopExit # Cancel
                   /\ sess'[s].pc = "close" <=> sess'[s].foundCount = sess[s].foundCount + 1
                   /\ sess'[s].pc = "close"
                        => /\ sess[s].pc = "evaluate"
                           /\ sess'[s].dom.button /\ ~sess'[s].dom.hide
                           /\ sess'[s].loopExit = Return(sess'[s].dom.snap)
           /\ (cancelled[s] /\ sess[s].pc = "close" /\ sess[s].loopExit.kind = "return"
                  /\ Done(s)' /\ sess'[s].browser = "closed")
                => sess'[s].outcome = "Found"
    ]_vars

\* a session whose flag was set during an attempt ended as Found
C17_Witness ==
  \E s \in Sids : /\ Done(s) /\ cancelled[s] /\ sess[s].outcome = "Found"
                   /\ sess[s].msgs = <<[kind |-> "ButtonFound", data |-> sess[s].dom.snap,
                                        err |-> ""]>>

\* a browser is being launched for the session, or was launched and its
\* close() has not settled yet
BrowserUp(s) == sess[s].pc = "launch" \/ sess[s].browser = "open"

\* C19: while the browser of a session is up (from the call of
\* puppeteer.launch until the awaited browser.close() has settled) the
\* registry entry of its conversation is present and is the session's own
\* handle, so at most one browser per conversation is up at any time; and a
\* /scrape that arrives while the previous session of the conversation is
\* closing its browser is rejected ('already running' when its URL is well
\* formed) and starts nothing.
C19_BrowserImpliesEntry ==
  [][ /\ \A s \in Sids : BrowserUp(s)' => scrapingControllers'[sess'[s].chat] = s
      /\ \A c \in Chats : Cardinality({s \in Sids : sess'[s].chat = c /\ BrowserUp(s)'}) <= 1
      /\ \A s \in Sids :
           (ev'.op = "scrape" /\ ev'.chat = sess[s].chat /\ sess[s].pc = "close")
             => /\ ev'.reply \in {"AlreadyRunning", "InvalidURL"}
                /\ ValidURL(ev'.url) => ev'.reply = "AlreadyRunning"
                /\ UNCHANGED <<scrapingControllers, cancelled, sess, nextSid>>
    ]_vars

\* a /scrape was just rejected as already running while the session of the
\* conversation is awaiting browser.close()
C19_Witness ==
  \E s \in Sids :
    /\ ev.op = "scrape" /\ ev.reply = "AlreadyRunning" /\ ev.chat = sess[s].chat
    /\ sess[s].pc = "close" /\ sess[s].browser = "open"
    /\ scrapingControllers[ev.chat] = s

\* the page.goto calls of the session that have not settled: the one the loop
\* is awaiting, and those that lost their race against the timer
InFlight(s) == sess[s].abandoned + (IF sess[s].pc = "goto" THEN 1 ELSE 0)

\* C20 as stated: at any time at most one page.goto is in flight on the page
\* of a session; no navigation of a timed-out attempt is still running when
\* the next navigation starts.
C20_AtMostOneInFlight == \A s \in Sids : InFlight(s) <= 1

\* C20, amended: the loop of a session awaits at most one navigation at a
\* time (a navigation is started only when none is awaited); a navigation is
\* left behind un-awaited only by the step that ends its attempt by the
\* timeout, one per such attempt, and it stays in flight until it settles by
\* itself, also while later navigations start; so the navigations in flight
\* never exceed the attempts started, nor one plus the attempts that ended.
C20_InFlightBounded ==
  [][ \A s \in Sids :
        /\ sess'[s].gotoCount = sess[s].gotoCount + 1
             => /\ sess[s].pc # "goto" /\ sess'[s].pc = "goto"
                /\ sess'[s].abandoned = sess[s].abandoned
        /\ sess'[s].abandoned > sess[s].abandoned
             => /\ sess'[s].abandoned = sess[s].abandoned + 1
                /\ sess[s].pc = "goto" /\ sess'[s].pc = "sleep"
        /\ InFlight(s)' <= sess'[s].gotoCount
        /\ sess'[s].abandoned <= sess'[s].sleepCount
    ]_vars

\* the second navigation of a session is awaited while the first, which was
\* reported as timed out, is still in flight
C20_Witness ==
  \E s \in Sids : /\ sess[s].pc = "goto" /\ sess[s].gotoCount = 2
                   /\ sess[s].abandoned = 1 /\ InFlight(s) = 2

\* C15: withTimeout settles with whichever of the wrapped promise and the
\* timer settles first, and nothing changes its result afterwards: when the
\* promise settles first the caller sees the promise's value or error, when
\* the timer fires first the caller sees the error carrying errorMessage; the
\* loser is not aborted: the winning step leaves it as it was, and its later
\* settlement is discarded.
C15_FirstSettlementWins ==
  [][ /\ race.result # Pending => race'.result = race.result
      /\ race'.first = "none" <=> race'.result = Pending
      /\ race'.first = "promise"
           => race'.result = race'.promise /\ race'.promise # Pending
      /\ race'.first = "timer" => race'.result = Rejected(race.errorMessage)
      /\ (race.first = "none" /\ race'.first = "promise") => race'.timer = "armed"
      /\ (race.first = "none" /\ race'.first = "timer") => race'.promise = Pending
    ]_vars

\* the timer fired first and the promise resolved afterwards: the caller
\* keeps the timeout error
C15_Witness ==
  /\ race.first = "timer" /\ race.timer = "fired"
  /\ race.promise.kind = "fulfilled"
  /\ race.result = Rejected(race.errorMessage)

\* C18 as stated: autoScroll scrolls by 500 per tick and stops at the first
\* tick at which the scroll position no longer advances: it has stopped
\* exactly when one tick, the last, left the position where it was.
C18_StopsWhenPositionStalls ==
  /\ scroll.state = "resolved" => (~scroll.advanced /\ scroll.stalls = 1)
  /\ scroll.state = "running" => scroll.stalls = 0

\* C18, amended: autoScroll asks for a scroll of 500 per tick and stops at the
\* first tick at which the distance asked for so far (500 times the ticks)
\* has reached the document's scrollHeight as read at that tick, whether or
\* not the position still advanced at that tick or had ceased to advance
\* before; for a page of fixed height h it stops after exactly
\* max(1, ceil(h / 500)) ticks.
C18_StopsWhenDistanceReachesHeight ==
  /\ scroll.totalHeight = distance * scroll.ticks
  /\ (scroll.state = "running" /\ scroll.ticks > 0)
       => scroll.totalHeight < scroll.scrollHeight
  /\ scroll.state = "resolved"
       => /\ scroll.ticks >= 1
          /\ scroll.totalHeight >= scroll.scrollHeight
          /\ scroll.ticks > 1 => scroll.totalHeight - distance < scroll.scrollHeight
  /\ scroll.grown = 0
       => /\ scroll.ticks <= scroll.scrollHeight \div distance + 1
          /\ scroll.state = "resolved"
               => scroll.ticks = Max2(1, (scroll.scrollHeight + distance - 1) \div distance)

\* on a page of fixed height 1600 seen through a window of 600 the scroll
\* stopped at the fourth tick, after two ticks that moved nothing
C18_Witness ==
  /\ scroll.state = "resolved" /\ scroll.grown = 0
  /\ scroll.scrollHeight = 1600 /\ scroll.innerHeight = 600
  /\ scroll.ticks = 4 /\ scroll.stalls = 2 /\ scroll.scrollY = 1000

\* C16 as stated: with timers firing and navigations settling (and the
\* browser starting and closing), a session
\* whose flag is set while it is alive eventually ends and its entry is
\* eventually removed.
C16_CancelLeadsToRelease ==
  \A s \in Sids :
    (cancelled[s] /\ Live(s))
      ~> (Done(s) /\ scrapingControllers[sess[s].chat] # s)

\* C16, amended: if moreover the scroll and the extraction of every attempt
\* settle, which no timer guards, a session whose flag is set while it is
\* alive eventually ends and its entry is eventually removed.
C16_CancelLeadsToReleaseIfPageSettles ==
  PageFairness
    => \A s \in Sids :
         (cancelled[s] /\ Live(s))
           ~> (Done(s) /\ scrapingControllers[sess[s].chat] # s)

\* a session was cancelled during an attempt, ended as Cancelled and released
\* its entry, and a later /scrape of the same conversation was admitted
C16_Witness ==
  \E s1, s2 \in Sids :
    /\ s1 # s2 /\ sess[s1].chat = sess[s2].chat
    /\ cancelled[s1] /\ Done(s1) /\ sess[s1].outcome = "Cancelled"
    /\ sess[s1].gotoCount >= 1
    /\ Live(s2) /\ scrapingControllers[sess[s2].chat] = s2

====
